---- MODULE Spec2Model ----
(***************************************************************************)
(* Model of the hybrid movie recommendation notebook                        *)
(* (src/unnamed/movie_recommendation.ipynb).                                *)
(*                                                                          *)
(* The notebook is a linear script: it loads the movie and rating tables,   *)
(* builds the TF-IDF / cosine content-similarity matrix, label-encodes the  *)
(* rating identifiers, trains the collaborative model and then serves calls *)
(* of get_hybrid_recommendations and evaluate_recommendations.              *)
(*                                                                          *)
(* Spec is the whole notebook; SpecContent runs the content scorer alone   *)
(* on a larger set of tables and SpecEncode the preprocessing cells alone   *)
(* on every rating table.                                                   *)
(*                                                                          *)
(* Real numbers are modelled in fixed point: a similarity s is the integer  *)
(* floor(s * ContentScale), a predicted rating r the integer                *)
(* r * ContentScale.  Row indices are zero-based, as in the code; row idx   *)
(* of a table is element idx + 1 of the sequence that models it.            *)
(***************************************************************************)
EXTENDS Integers, Sequences, FiniteSets

VARIABLES
    pc,                  \* the next notebook cell to run
    movies_df,           \* movie table: sequence of [movieId, title, genres]
    ratings_df,          \* rating table: sequence of [userId, movieId]
    content_sim_matrix,  \* content_sim_matrix[i+1][j+1], fixed point
    user_id_encoded,     \* ratings_df['user_id_encoded']
    movie_id_encoded,    \* ratings_df['movie_id_encoded']
    num_users,
    num_movies,
    cf_model,            \* trained model: user index -> movie index -> rating
    call,                \* the last call made: [fn, input_movies, top_n]
    outcome              \* what that call did

vars == <<pc, movies_df, ratings_df, content_sim_matrix, user_id_encoded,
          movie_id_encoded, num_users, num_movies, cf_model, call, outcome>>

----------------------------------------------------------------------------
(* Bounds of the model *)

MaxMovies == 3

MaxRatings == 3

MaxSeeds == 2

MaxTopN == 2

ContentScale == 10

----------------------------------------------------------------------------
(* Generic helpers *)

Range(s) == {s[i] : i \in DOMAIN s}

Min(a, b) == IF a <= b THEN a ELSE b

RECURSIVE SumSeq(_)
SumSeq(s) == IF s = <<>> THEN 0 ELSE Head(s) + SumSeq(Tail(s))

RECURSIVE SumOver(_, _)
SumOver(S, f) ==
    IF S = {} THEN 0
    ELSE LET x == CHOOSE y \in S : TRUE IN f[x] + SumOver(S \ {x}, f)

\* all sequences over S of length lo..hi
SeqsOf(S, lo, hi) == UNION {[1..n -> S] : n \in lo..hi}

\* the elements of a set of integers as an ascending sequence
RECURSIVE SortedSeq(_)
SortedSeq(S) ==
    IF S = {} THEN <<>>
    ELSE LET m == CHOOSE x \in S : \A y \in S : x <= y
         IN <<m>> \o SortedSeq(S \ {m})

\* the order left as it is
Unreversed(s) == s

Reverse(s) == [i \in 1..Len(s) |-> s[Len(s) + 1 - i]]

----------------------------------------------------------------------------
(* Input data: the tables the notebook can load *)

\* (title, genres) pairs a movies.csv row can carry; genres is the
\* pipe-delimited column, already split.  Two rows share the title "Emma".
Catalogue ==
    { [title |-> "Toy Story", genres |-> <<"Comedy", "Romance">>],
      [title |-> "Emma",      genres |-> <<"Drama">>],
      [title |-> "Emma",      genres |-> <<"Comedy", "Romance">>],
      [title |-> "Heat",      genres |-> <<"Drama">>] }

\* more rows for the content scorer: every word of "It" and of "Other" is
\* an English stop word
ContentCatalogue ==
    Catalogue \cup
    { [title |-> "It", genres |-> <<"Other">>],
      [title |-> "It", genres |-> <<"Drama">>] }

\* titles a caller passes as seeds; "Inception" is in no table
SeedTitles == {"Toy Story", "Emma", "Inception"}

\* the words of a title, in order
TitleWords ==
    [t \in {"Toy Story", "Emma", "Heat", "It", "Inception"} |->
        CASE t = "Toy Story" -> <<"Toy", "Story">>
          [] t = "Emma"      -> <<"Emma">>
          [] t = "Heat"      -> <<"Heat">>
          [] t = "It"        -> <<"It">>
          [] t = "Inception" -> <<"Inception">>]

\* movie tables over a catalogue: row i (zero-based) carries movieId i + 1
TablesOver(catalogue) ==
    { [i \in 1..Len(rows) |-> [movieId |-> i, title |-> rows[i].title,
                               genres |-> rows[i].genres]] :
        rows \in SeqsOf(catalogue, 1, MaxMovies) }

MovieTables == TablesOver(Catalogue)

ContentTables == TablesOver(ContentCatalogue)

----------------------------------------------------------------------------
(* Content scorer: TfidfVectorizer(stop_words='english') and                *)
(* cosine_similarity                                                        *)

\* the part of sklearn's English stop-word list the tables can meet
ENGLISH_STOP_WORDS == {"it", "other", "the"}

\* str.lower on the words the tables hold
Lower ==
    [w \in {"Comedy", "Romance", "Drama", "Other", "Toy", "Story", "Emma",
            "Heat", "It", "Inception"} |->
        CASE w = "Comedy"    -> "comedy"
          [] w = "Romance"   -> "romance"
          [] w = "Drama"     -> "drama"
          [] w = "Other"     -> "other"
          [] w = "Toy"       -> "toy"
          [] w = "Story"     -> "story"
          [] w = "Emma"      -> "emma"
          [] w = "Heat"      -> "heat"
          [] w = "It"        -> "it"
          [] w = "Inception" -> "inception"]

\* movies_df['content_features'] = genres + ' ' + title, as its words
content_features(row) == row.genres \o TitleWords[row.title]

IsTerm(w) == w \notin ENGLISH_STOP_WORDS

\* the analyzer: lower-case every word, drop the stop words
Analyze(words) ==
    SelectSeq([i \in 1..Len(words) |-> Lower[words[i]]], IsTerm)

\* the terms of document i (one-based) of the table
DocTerms(df, i) == Analyze(content_features(df[i]))

\* the fitted vocabulary
Vocabulary(df) == UNION {Range(DocTerms(df, i)) : i \in 1..Len(df)}

\* raw term count of t in document i
TermFreq(df, i, t) ==
    Cardinality({k \in 1..Len(DocTerms(df, i)) : DocTerms(df, i)[k] = t})

\* number of documents that contain t
DocFreq(df, t) ==
    Cardinality({i \in 1..Len(df) : t \in Range(DocTerms(df, i))})

\* 10 * ln(k), rounded
Ln10 == <<0, 7, 11, 14, 16, 18, 19, 21, 22, 23>>

\* smooth idf, times 10: ln((1 + n) / (1 + df)) + 1
Idf(df, t) == Ln10[1 + Len(df)] - Ln10[1 + DocFreq(df, t)] + 10

\* tf-idf weight of t in document i, before normalisation
TfIdf(df, i, t) == TermFreq(df, i, t) * Idf(df, t)

Dot(df, i, j) ==
    SumOver(Vocabulary(df),
            [t \in Vocabulary(df) |-> TfIdf(df, i, t) * TfIdf(df, j, t)])

\* a dot product divided by the squared norm of row i alone
CosineByRowNorm(df, i, j) ==
    IF Dot(df, i, i) = 0 THEN 0
    ELSE (ContentScale * Dot(df, i, j)) \div Dot(df, i, i)

\* cosine of the l2-normalised rows i and j in fixed point; a row without a
\* term has norm 0, is left as it is by the normalisation and has cosine 0
\* with every row
Cosine(df, i, j) ==
    LET ii == Dot(df, i, i)
        jj == Dot(df, j, j)
        ij == Dot(df, i, j)
        below == {r \in 0..ContentScale :
                    r * r * ii * jj <= ContentScale * ContentScale * ij * ij}
    IN IF ii = 0 \/ jj = 0 THEN 0
       ELSE CHOOSE r \in below : \A q \in below : q <= r

cosine_similarity(df) ==
    [i \in 1..Len(df) |-> [j \in 1..Len(df) |-> Cosine(df, i, j)]]

----------------------------------------------------------------------------
(* Collaborative filtering preprocessing: LabelEncoder *)

UserIds == {3, 7}

RatedMovieIds == {1, 2, 3, 6}

RatingRecords == [userId : UserIds, movieId : RatedMovieIds]

\* rating tables: ratings_df.pivot accepts no (user, movie) pair twice, and
\* train_test_split no empty table
RatingTables ==
    { r \in SeqsOf(RatingRecords, 1, MaxRatings) :
        \A i, j \in 1..Len(r) : r[i] = r[j] => i = j }

\* the rating tables the recommendation calls are explored on: one, two and
\* three rated movies, the first record by the smaller or the larger user;
\* one table rates exactly the movies of the first two table rows
SampleRatings ==
    { <<[userId |-> 3, movieId |-> 2]>>,
      <<[userId |-> 3, movieId |-> 1], [userId |-> 7, movieId |-> 2]>>,
      <<[userId |-> 7, movieId |-> 3], [userId |-> 3, movieId |-> 2]>>,
      <<[userId |-> 3, movieId |-> 2], [userId |-> 7, movieId |-> 3],
        [userId |-> 7, movieId |-> 6]>> }

\* LabelEncoder.fit: classes_ = np.unique(y), sorted ascending
classes_(y) == SortedSeq(Range(y))

\* LabelEncoder.transform: the zero-based position of each value in classes_
transform(classes, y) ==
    [i \in 1..Len(y) |-> (CHOOSE k \in 1..Len(classes) : classes[k] = y[i]) - 1]

fit_transform(y) == transform(classes_(y), y)

Column(df, f) == [i \in 1..Len(df) |-> df[i][f]]

\* len(X): the records, not the distinct values
CountRecords(X) == Len(X)

\* len(np.unique(X))
CountUnique(X) == Cardinality(Range(X))

----------------------------------------------------------------------------
(* Rating-prediction model *)

\* predicted ratings, fixed point
CFValues == {30, 34}

\* the functions a training run can end in: a rating per movie index, shifted
\* by the user index
TrainedModels(nu, nm) ==
    { [u \in 0..(nu - 1) |-> [m \in 0..(nm - 1) |-> g[m] + u]] :
        g \in [0..(nm - 1) -> CFValues] }

----------------------------------------------------------------------------
(* Hybrid ranker: get_hybrid_recommendations *)

\* movies_df[movies_df['title'] == movie].index, zero-based row labels
RowsWithTitle(df, movie) == {i \in 0..(Len(df) - 1) : df[i + 1].title = movie}

SetMin(S) == CHOOSE x \in S : \A y \in S : x <= y

\* a seed loop that skips a seed without a row instead of returning
SeedLookupSkipAbsent(df, input_movies) ==
    LET present == SelectSeq(input_movies,
                             LAMBDA t : \E i \in 1..Len(df) : df[i].title = t)
    IN [found |-> TRUE,
        indices |-> [k \in 1..Len(present) |->
                       CHOOSE x \in 0..(Len(df) - 1) :
                         /\ df[x + 1].title = present[k]
                         /\ \A y \in 0..(x - 1) : df[y + 1].title # present[k]]]

\* the seed loop: idx[0] of every seed, or the first seed that has no row
SeedLookup(df, input_movies) ==
    LET absent == {k \in 1..Len(input_movies) :
                     RowsWithTitle(df, input_movies[k]) = {}}
    IN IF absent # {}
       THEN [found |-> FALSE, indices |-> <<>>]
       ELSE [found |-> TRUE,
             indices |-> [k \in 1..Len(input_movies) |->
                            SetMin(RowsWithTitle(df, input_movies[k]))]]

\* np.mean(rows, axis=0) of the seeds' similarity rows, times the number of
\* seeds: column j (zero-based) of the sum
ContentSum(sim, indices, j) ==
    SumSeq([k \in 1..Len(indices) |-> sim[indices[k] + 1][j + 1]])

\* 0.5 * content_scores + 0.5 * cf_ratings at index m, times twice the number
\* of seeds; len is the length of the sliced content_scores, and a content
\* vector of length 1 is broadcast over the ratings
HybridScore(sim, indices, cf, len, m) ==
    ContentSum(sim, indices, IF len = 1 THEN 0 ELSE m) + Len(indices) * cf[m]

\* np.argsort: the orders of 0..n-1 that are ascending in h; the order of
\* equal scores is up to the sort the build uses
Argsort(h, n) ==
    { p \in [1..n -> 0..(n - 1)] :
        /\ \A a, b \in 1..n : p[a] = p[b] => a = b
        /\ \A a, b \in 1..n : a < b => h[p[a]] <= h[p[b]] }

\* a filter that forgets the seed test
KeepAnyTitle(rec_movie_title, input_movies, recommendations, top_n) ==
    Len(recommendations) < top_n

\* a filter that lets one title too many through
KeepOneMore(rec_movie_title, input_movies, recommendations, top_n) ==
    /\ rec_movie_title \notin Range(input_movies)
    /\ Len(recommendations) <= top_n

\* the filter of the result loop
Keep(rec_movie_title, input_movies, recommendations, top_n) ==
    /\ rec_movie_title \notin Range(input_movies)
    /\ Len(recommendations) < top_n

\* the result loop from position k of top_indices on; movies_df.loc[idx]
\* raises KeyError for a label the table does not have
RECURSIVE ResultLoop(_, _, _, _, _, _, _)
ResultLoop(df, top_indices, k, input_movies, top_n, recommendations, rows) ==
    IF k > Len(top_indices)
    THEN [exc |-> "none", recommendations |-> recommendations, rows |-> rows]
    ELSE LET idx == top_indices[k] IN
         IF idx >= Len(df)
         THEN [exc |-> "KeyError", recommendations |-> <<>>, rows |-> <<>>]
         ELSE IF Keep(df[idx + 1].title, input_movies, recommendations, top_n)
              THEN ResultLoop(df, top_indices, k + 1, input_movies, top_n,
                              Append(recommendations, df[idx + 1].title),
                              Append(rows, idx))
              ELSE ResultLoop(df, top_indices, k + 1, input_movies, top_n,
                              recommendations, rows)

\* movie ids counted from one: np.arange(1, num_movies + 1)
PredictInputsFromOne(X_users, nm) == {<<X_users[1], m>> : m \in 1..nm}

\* [user_inputs, all_movie_ids]: the sample user beside np.arange(num_movies)
PredictInputs(X_users, nm) == {<<X_users[1], m>> : m \in 0..(nm - 1)}

NoResult(exc, printed, queried) ==
    [exc |-> exc, returned |-> <<>>, printed |-> printed, rows |-> <<>>,
     queried |-> queried]

\* the body of the try block: every way it can end.  exc is the exception it
\* raises ("none": it returns), rows the table rows behind the returned
\* titles, queried the (user, movie) index pairs handed to cf_model.predict
TryBody(df, sim, X_users, nm, model, input_movies, top_n) ==
    LET seeds          == SeedLookup(df, input_movies)
        sample_user_id == X_users[1]
        len            == Min(Len(df), nm)
        pairs          == PredictInputs(X_users, nm)
        hybrid_scores  ==
            [m \in 0..(nm - 1) |->
                HybridScore(sim, seeds.indices, model[sample_user_id], len, m)]
    IN IF ~seeds.found
       THEN {NoResult("none", "Warning: not found", {})}
       ELSE IF seeds.indices = <<>>
       \* np.mean of no rows is a scalar nan, which cannot be sliced
       THEN {NoResult("IndexError", "", {})}
       ELSE IF len # nm /\ len # 1
       \* operands of different length cannot be added
       THEN {NoResult("ValueError", "", pairs)}
       ELSE { LET loop == ResultLoop(df, Reverse(p), 1, input_movies, top_n,
                                     <<>>, <<>>)
              IN [exc |-> loop.exc, returned |-> loop.recommendations,
                  printed |-> "", rows |-> loop.rows, queried |-> pairs] :
              p \in Argsort(hybrid_scores, nm) }

\* no except clause: the exception reaches the caller
Propagate(r) ==
    [raised |-> r.exc # "none", failed |-> r.exc # "none",
     returned |-> r.returned, printed |-> r.printed, rows |-> r.rows,
     queried |-> r.queried]

\* try ... except Exception: print the error and return []
Except(r) ==
    IF r.exc = "none"
    THEN [raised |-> FALSE, failed |-> FALSE, returned |-> r.returned,
          printed |-> r.printed, rows |-> r.rows, queried |-> r.queried]
    ELSE [raised |-> FALSE, failed |-> TRUE, returned |-> <<>>,
          printed |-> "An error occurred", rows |-> <<>>,
          queried |-> r.queried]

get_hybrid_recommendations(df, sim, X_users, nm, model, input_movies, top_n) ==
    { Except(r) : r \in TryBody(df, sim, X_users, nm, model, input_movies, top_n) }

----------------------------------------------------------------------------
(* Evaluator: evaluate_recommendations *)

\* movies_df[movies_df['title'] == t]['genres'].values[0].split('|'):
\* the genres of the first row that carries the title
GenresOfTitle(df, t) == Range(df[SetMin(RowsWithTitle(df, t)) + 1].genres)

\* a sum over the matching genres instead of the matching titles
GenreMatchesPerGenre(df, input_genres, recommendations) ==
    SumSeq([k \in 1..Len(recommendations) |->
              Cardinality(GenresOfTitle(df, recommendations[k]) \cap input_genres)])

\* the genre-match sum over the recommended titles
GenreMatches(df, input_genres, recommendations) ==
    Cardinality({k \in 1..Len(recommendations) :
                   GenresOfTitle(df, recommendations[k]) \cap input_genres # {}})

\* the metrics dict; genre_match_rate = num / den percent
Metrics(recommendations, genre_matches) ==
    [recommendations |-> recommendations,
     genre_match_rate |->
        IF recommendations # <<>>
        THEN [num |-> genre_matches * 100, den |-> Len(recommendations)]
        ELSE [num |-> 0, den |-> 1],
     total_recommendations |-> Len(recommendations)]

NoMetrics == [recommendations |-> <<>>, genre_match_rate |-> [num |-> 0, den |-> 1],
              total_recommendations |-> 0]

\* every way a call can end.  raised: an exception reaches the caller;
\* recs: the list the ranker handed back (rows, failed, printed, queried as
\* the ranker left them); metrics: the dict returned
evaluate_recommendations(df, sim, X_users, nm, model, test_movies, top_n) ==
    { LET unknown == {k \in 1..Len(test_movies) :
                        RowsWithTitle(df, test_movies[k]) = {}}
          input_genres ==
              UNION {GenresOfTitle(df, test_movies[k]) : k \in 1..Len(test_movies)}
      IN IF unknown # {}
         \* .values[0] of an empty selection
         THEN [raised |-> TRUE, recs |-> h.returned, rows |-> h.rows,
               failed |-> h.failed, printed |-> h.printed,
               queried |-> h.queried, metrics |-> NoMetrics]
         ELSE [raised |-> FALSE, recs |-> h.returned, rows |-> h.rows,
               failed |-> h.failed, printed |-> h.printed,
               queried |-> h.queried,
               metrics |-> Metrics(h.returned,
                                   GenreMatches(df, input_genres, h.returned))] :
      h \in get_hybrid_recommendations(df, sim, X_users, nm, model,
                                       test_movies, top_n) }

----------------------------------------------------------------------------
(* The notebook as a state machine *)

NoCall == [fn |-> "none", input_movies |-> <<>>, top_n |-> 0]

NoOutcome ==
    [raised |-> FALSE, failed |-> FALSE, returned |-> <<>>, printed |-> "",
     rows |-> <<>>, queried |-> {}, metrics |-> NoMetrics]

\* TfidfVectorizer.fit_transform raises on an empty vocabulary
Loadable(df) == Vocabulary(df) # {}

InitWith(tables, ratings) ==
    /\ pc = "vectorize"
    /\ movies_df \in {df \in tables : Loadable(df)}
    /\ ratings_df \in ratings
    /\ content_sim_matrix = <<>>
    /\ user_id_encoded = <<>>
    /\ movie_id_encoded = <<>>
    /\ num_users = 0
    /\ num_movies = 0
    /\ cf_model = <<>>
    /\ call = NoCall
    /\ outcome = NoOutcome

Init == InitWith(MovieTables, SampleRatings)

\* tfidf.fit_transform and cosine_similarity
VectorizeContent ==
    /\ pc = "vectorize"
    /\ content_sim_matrix' = cosine_similarity(movies_df)
    /\ pc' = "encode"
    /\ UNCHANGED <<movies_df, ratings_df, user_id_encoded, movie_id_encoded,
                   num_users, num_movies, cf_model, call, outcome>>

\* user_encoder.fit_transform and movie_encoder.fit_transform
EncodeRatings ==
    /\ pc = "encode"
    /\ user_id_encoded' = fit_transform(Column(ratings_df, "userId"))
    /\ movie_id_encoded' = fit_transform(Column(ratings_df, "movieId"))
    /\ pc' = "prepare"
    /\ UNCHANGED <<movies_df, ratings_df, content_sim_matrix, num_users,
                   num_movies, cf_model, call, outcome>>

\* X_users, X_movies, num_users, num_movies
PrepareTraining ==
    /\ pc = "prepare"
    /\ num_users' = CountUnique(user_id_encoded)
    /\ num_movies' = CountUnique(movie_id_encoded)
    /\ pc' = "train"
    /\ UNCHANGED <<movies_df, ratings_df, content_sim_matrix, user_id_encoded,
                   movie_id_encoded, cf_model, call, outcome>>

\* create_hybrid_model and cf_model.fit
TrainModel ==
    /\ pc = "train"
    /\ cf_model' \in TrainedModels(num_users, num_movies)
    /\ pc' = "serve"
    /\ UNCHANGED <<movies_df, ratings_df, content_sim_matrix, user_id_encoded,
                   movie_id_encoded, num_users, num_movies, call, outcome>>

\* the seed lists a caller passes: no title twice
SeedLists ==
    { s \in SeqsOf(SeedTitles, 0, MaxSeeds) :
        \A i, j \in 1..Len(s) : s[i] = s[j] => i = j }

CallGetHybrid ==
    /\ pc = "serve"
    /\ \E input_movies \in SeedLists, top_n \in 0..MaxTopN :
         /\ call' = [fn |-> "get_hybrid_recommendations",
                     input_movies |-> input_movies, top_n |-> top_n]
         /\ \E r \in get_hybrid_recommendations(movies_df, content_sim_matrix,
                       user_id_encoded, num_movies, cf_model, input_movies, top_n) :
              outcome' = [raised |-> r.raised, failed |-> r.failed,
                          returned |-> r.returned, printed |-> r.printed,
                          rows |-> r.rows, queried |-> r.queried,
                          metrics |-> NoMetrics]
    /\ pc' = "print"
    /\ UNCHANGED <<movies_df, ratings_df, content_sim_matrix, user_id_encoded,
                   movie_id_encoded, num_users, num_movies, cf_model>>

CallEvaluate ==
    /\ pc = "serve"
    /\ \E test_movies \in SeedLists, top_n \in 0..MaxTopN :
         /\ call' = [fn |-> "evaluate_recommendations",
                     input_movies |-> test_movies, top_n |-> top_n]
         /\ \E r \in evaluate_recommendations(movies_df, content_sim_matrix,
                       user_id_encoded, num_movies, cf_model, test_movies, top_n) :
              outcome' = [raised |-> r.raised, failed |-> r.failed,
                          returned |-> r.recs, printed |-> r.printed,
                          rows |-> r.rows, queried |-> r.queried,
                          metrics |-> r.metrics]
    /\ pc' = "print"
    /\ UNCHANGED <<movies_df, ratings_df, content_sim_matrix, user_id_encoded,
                   movie_id_encoded, num_users, num_movies, cf_model>>

\* the calling cell prints what it got (or the traceback) and the notebook
\* is ready for the next call
PrintResult ==
    /\ pc = "print"
    /\ pc' = "serve"
    /\ call' = NoCall
    /\ outcome' = NoOutcome
    /\ UNCHANGED <<movies_df, ratings_df, content_sim_matrix, user_id_encoded,
                   movie_id_encoded, num_users, num_movies, cf_model>>

Next ==
    \/ VectorizeContent
    \/ EncodeRatings
    \/ PrepareTraining
    \/ TrainModel
    \/ CallGetHybrid
    \/ CallEvaluate
    \/ PrintResult

Spec == Init /\ [][Next]_vars

\* the content scorer alone, on every table over the larger catalogue
FirstSample == {r \in SampleRatings : Len(r) = 1}

InitContent == InitWith(ContentTables, FirstSample)

NextContent == VectorizeContent

SpecContent == InitContent /\ [][NextContent]_vars

\* the preprocessing cells alone, on every rating table
OneRowTables == {df \in MovieTables : Len(df) = 1}

InitEncode == InitWith(OneRowTables, RatingTables)

NextEncode ==
    \/ VectorizeContent
    \/ EncodeRatings
    \/ PrepareTraining

SpecEncode == InitEncode /\ [][NextEncode]_vars

----------------------------------------------------------------------------
(* Properties *)

HybridReturned == pc = "print" /\ call.fn = "get_hybrid_recommendations"

EvaluateReturned == pc = "print" /\ call.fn = "evaluate_recommendations"

TableTitles == {movies_df[i].title : i \in 1..Len(movies_df)}

SeedTitlesOfCall == Range(call.input_movies)

SomeSeedAbsent == \E t \in SeedTitlesOfCall : t \notin TableTitles

AllSeedsPresent == SeedTitlesOfCall \subseteq TableTitles

\* C1: a call of get_hybrid_recommendations whose seed list holds a title
\* that is in no row of the movie table returns the empty list and raises
\* nothing, whatever the other seeds and top_n are.
C1_AbsentSeedReturnsEmpty ==
    (HybridReturned /\ SomeSeedAbsent) =>
        (outcome.returned = <<>> /\ ~outcome.raised)

\* C1 witness: an absent seed after a present one, top_n > 0, rows left to
\* recommend
C1_Witness ==
    /\ HybridReturned
    /\ Len(call.input_movies) = 2
    /\ call.input_movies[1] \in TableTitles
    /\ call.input_movies[2] \notin TableTitles
    /\ call.top_n > 0
    /\ TableTitles \ SeedTitlesOfCall # {}
    /\ num_movies = Len(movies_df)
    /\ outcome.returned = <<>>

\* C2: no title returned by get_hybrid_recommendations equals a seed title,
\* also when several rows of the table carry a seed's title.
C2_NoSeedReturned ==
    HybridReturned =>
        \A k \in 1..Len(outcome.returned) :
            outcome.returned[k] \notin SeedTitlesOfCall

\* C2 witness: two rows carry the seed's title and the call returned titles
C2_Witness ==
    /\ HybridReturned
    /\ \E t \in SeedTitlesOfCall :
         Cardinality({i \in 1..Len(movies_df) : movies_df[i].title = t}) >= 2
    /\ num_movies = Len(movies_df)
    /\ outcome.returned # <<>>

\* the rows of the table whose title is no seed, among the first n
NonSeedRows(n) ==
    {i \in 0..(Min(n, Len(movies_df)) - 1) :
        movies_df[i + 1].title \notin SeedTitlesOfCall}

\* C3 as stated: at most top_n titles, and exactly top_n when all seeds are
\* present and at least top_n rows of the table carry a title that is no
\* seed.
C3_ExactlyN_AsStated ==
    HybridReturned =>
        /\ Len(outcome.returned) <= call.top_n
        /\ (AllSeedsPresent
              /\ Cardinality(NonSeedRows(Len(movies_df))) >= call.top_n)
             => Len(outcome.returned) = call.top_n

\* C3 amended: at most top_n titles, and exactly top_n when the seed list is
\* not empty, all seeds are present, num_movies does not exceed the number
\* of table rows and at least top_n of the first num_movies rows carry a
\* title that is no seed.
C3_ExactlyN ==
    HybridReturned =>
        /\ Len(outcome.returned) <= call.top_n
        /\ (call.input_movies # <<>>
              /\ AllSeedsPresent
              /\ num_movies <= Len(movies_df)
              /\ Cardinality(NonSeedRows(num_movies)) >= call.top_n)
             => Len(outcome.returned) = call.top_n

\* C3 witness: enough candidates beside a seed row, and top_n = 2 titles
\* returned
C3_Witness ==
    /\ HybridReturned
    /\ call.input_movies # <<>>
    /\ AllSeedsPresent
    /\ num_movies <= Len(movies_df)
    /\ call.top_n = 2
    /\ Cardinality(NonSeedRows(num_movies)) >= call.top_n
    /\ Len(outcome.returned) = 2

\* C4 as stated: the returned titles are pairwise distinct and each is a
\* title of the movie table.
C4_DistinctTitles ==
    (HybridReturned /\ AllSeedsPresent) =>
        /\ \A a, b \in 1..Len(outcome.returned) :
             outcome.returned[a] = outcome.returned[b] => a = b
        /\ Range(outcome.returned) \subseteq TableTitles

\* a step of the recommendation generation fails: a seed has no row, the
\* mean of no similarity row cannot be sliced, or there are more rated
\* movies than table rows (vectors of different length, or a row label the
\* table does not have)
SomeStepFails ==
    \/ SomeSeedAbsent
    \/ call.input_movies = <<>>
    \/ num_movies > Len(movies_df)

\* C5: get_hybrid_recommendations never lets a failure reach its caller:
\* when a step fails it prints a message and returns the empty list.
C5_FailureSwallowed ==
    HybridReturned =>
        /\ ~outcome.raised
        /\ outcome.failed => SomeStepFails
        /\ SomeStepFails => (outcome.returned = <<>> /\ outcome.printed # "")

\* C5 witness: an exception was caught although every seed has a row
C5_Witness ==
    /\ HybridReturned
    /\ outcome.failed
    /\ call.input_movies # <<>>
    /\ AllSeedsPresent
    /\ num_movies > Len(movies_df)
    /\ Len(movies_df) > 1
    /\ outcome.returned = <<>>

\* C6 as stated: whenever the recommendation list obtained for the seeds is
\* empty, evaluate_recommendations returns a genre_match_rate of 0.
C6_EmptyListRateZero ==
    (EvaluateReturned /\ outcome.returned = <<>>) =>
        (~outcome.raised /\ outcome.metrics.genre_match_rate.num = 0)

\* C7: when evaluate_recommendations returns with a non-empty list,
\* genre_match_rate is within 0..100 and total_recommendations is the length
\* of the returned list.
C7_RateInRange ==
    (EvaluateReturned /\ ~outcome.raised /\ outcome.returned # <<>>) =>
        /\ outcome.metrics.recommendations = outcome.returned
        /\ outcome.metrics.genre_match_rate.den > 0
        /\ 0 <= outcome.metrics.genre_match_rate.num
        /\ outcome.metrics.genre_match_rate.num
             <= 100 * outcome.metrics.genre_match_rate.den
        /\ outcome.metrics.total_recommendations
             = Len(outcome.metrics.recommendations)

\* C7 witness: two titles recommended, one of them a genre match (50 %)
C7_Witness ==
    /\ EvaluateReturned
    /\ ~outcome.raised
    /\ Len(outcome.returned) = 2
    /\ outcome.metrics.genre_match_rate = [num |-> 100, den |-> 2]
    /\ outcome.metrics.total_recommendations = 2

\* the genres of the seed movies: of the row each seed resolves to
SeedGenres ==
    UNION { Range(movies_df[SetMin(RowsWithTitle(movies_df, t)) + 1].genres) :
            t \in SeedTitlesOfCall }

\* the rows the ranker selected that share a genre with the seeds
MatchingRows ==
    {k \in 1..Len(outcome.rows) :
        Range(movies_df[outcome.rows[k] + 1].genres) \cap SeedGenres # {}}

\* C8 as stated: for present seeds genre_match_rate is 100 times the
\* fraction of the rows the ranker selected whose genres share a tag with
\* the union of the seeds' genres.
C8_RateIsRowFraction ==
    (EvaluateReturned /\ AllSeedsPresent /\ ~outcome.raised
       /\ outcome.returned # <<>>) =>
        outcome.metrics.genre_match_rate.num * Len(outcome.rows)
          = 100 * Cardinality(MatchingRows) * outcome.metrics.genre_match_rate.den

----------------------------------------------------------------------------
(* Properties of the content scorer, under SpecContent *)

MatrixBuilt == pc # "vectorize"

Rows == 1..Len(movies_df)

HasTerm(i) == DocTerms(movies_df, i) # <<>>

SymmetricInRange ==
    \A i, j \in Rows :
        /\ content_sim_matrix[i][j] = content_sim_matrix[j][i]
        /\ content_sim_matrix[i][j] \in 0..ContentScale

\* C9 as stated: the matrix is symmetric, every entry is in [0, 1] and
\* every diagonal entry is 1.
C9_DiagonalOne_AsStated ==
    MatrixBuilt =>
        /\ SymmetricInRange
        /\ \A i \in Rows : content_sim_matrix[i][i] = ContentScale

\* C9 amended: the matrix is symmetric, every entry is in [0, 1], the
\* diagonal entry of a movie whose text has a term is 1, and that of a movie
\* whose text has no term after stop-word removal is 0.
C9_Similarity ==
    MatrixBuilt =>
        /\ SymmetricInRange
        /\ \A i \in Rows :
             content_sim_matrix[i][i] = IF HasTerm(i) THEN ContentScale ELSE 0

\* C9 witness: a movie without a term beside two different movies that
\* share a term
C9_Witness ==
    /\ MatrixBuilt
    /\ \E i, j, k \in Rows :
         /\ ~HasTerm(i)
         /\ content_sim_matrix[i][i] = 0
         /\ content_sim_matrix[j][j] = ContentScale
         /\ content_sim_matrix[j][k] \in 1..(ContentScale - 1)

----------------------------------------------------------------------------
(* Properties of the encoders, under SpecEncode *)

Encoded == pc \in {"prepare", "train"}

Counted == pc = "train"

\* raw is in one-to-one correspondence with code, and the codes are 0..n-1
\* for the n distinct raw values
DenseBijection(raw, code) ==
    /\ Len(code) = Len(raw)
    /\ \A i, j \in 1..Len(raw) : (raw[i] = raw[j]) <=> (code[i] = code[j])
    /\ Range(code) = 0..(Cardinality(Range(raw)) - 1)

\* C10: the user and the movie encoding are each a bijection from the
\* distinct raw identifiers of the rating set onto 0..n-1, and num_users and
\* num_movies are these n.
C10_DenseEncoding ==
    /\ Encoded =>
         /\ DenseBijection(Column(ratings_df, "userId"), user_id_encoded)
         /\ DenseBijection(Column(ratings_df, "movieId"), movie_id_encoded)
    /\ Counted =>
         /\ num_users = Cardinality(Range(Column(ratings_df, "userId")))
         /\ num_movies = Cardinality(Range(Column(ratings_df, "movieId")))

\* C10 witness: three ratings by two users of two movies, counted
C10_Witness ==
    /\ Counted
    /\ Len(ratings_df) = 3
    /\ num_users = 2
    /\ num_movies = 2
    /\ Range(user_id_encoded) = {0, 1}
    /\ Range(Column(ratings_df, "movieId")) = {3, 6}

----------------------------------------------------------------------------
(* Properties of the hybrid scores, under Spec *)

\* the call ranked the candidates: every seed has a row and nothing failed
Ranked ==
    /\ HybridReturned
    /\ call.input_movies # <<>>
    /\ AllSeedsPresent
    /\ ~outcome.failed

\* the reference user: X_users[0]
SampleUser == user_id_encoded[1]

\* the movie index i that predict was given stands for the movie of table
\* row i: some rating of that row's movie is encoded as i
SameMovieAt(i) ==
    /\ <<SampleUser, i>> \in outcome.queried
    /\ \E k \in 1..Len(ratings_df) :
         /\ ratings_df[k].movieId = movies_df[i + 1].movieId
         /\ movie_id_encoded[k] = i

\* C11 as stated: the collaborative score added to the content score of
\* table row i is the reference user's predicted rating of the movie stored
\* in row i, for every candidate row i.
C11_ScoresOfSameMovie ==
    Ranked => \A i \in 0..(num_movies - 1) : SameMovieAt(i)

\* the row a seed title resolves to
SeedRow(t) == SetMin(RowsWithTitle(movies_df, t))

\* the content part of the score of candidate i: the sum over the seeds of
\* the similarity of the seed's row and row i
ContentPart(i) ==
    SumSeq([k \in 1..Len(call.input_movies) |->
              content_sim_matrix[SeedRow(call.input_movies[k]) + 1][i + 1]])

\* the collaborative part of candidate i: the prediction at index i
CollaborativePart(i) == cf_model[SampleUser][i]

\* 0.5 * mean content similarity + 0.5 * collaborative score of candidate
\* i, times twice the number of seeds (a positive factor, the same for
\* every candidate of a call)
Score(i) == ContentPart(i) + Len(call.input_movies) * CollaborativePart(i)

\* C12: for present seeds the returned list is in non-increasing order of
\* hybrid score, and no omitted candidate that is no seed has a strictly
\* higher score than a returned one.
C12_RankedByScore ==
    Ranked =>
        /\ Len(outcome.rows) = Len(outcome.returned)
        /\ \A k \in 1..Len(outcome.rows) :
             outcome.returned[k] = movies_df[outcome.rows[k] + 1].title
        /\ \A a, b \in 1..Len(outcome.rows) :
             a < b => Score(outcome.rows[a]) >= Score(outcome.rows[b])
        /\ \A c \in NonSeedRows(num_movies) \ Range(outcome.rows) :
             \A r \in Range(outcome.rows) : Score(c) <= Score(r)

\* C12 witness: two titles returned, of equal predicted rating, the first
\* with the strictly higher content similarity to the seed and so the
\* strictly higher score
C12_Witness ==
    /\ Ranked
    /\ Len(outcome.rows) = 2
    /\ Score(outcome.rows[1]) > Score(outcome.rows[2])
    /\ ContentPart(outcome.rows[1]) > ContentPart(outcome.rows[2])
    /\ CollaborativePart(outcome.rows[1]) = CollaborativePart(outcome.rows[2])

\* C13 as stated: of two returned candidates with equal hybrid scores the
\* one that comes earlier in the movie table is ranked first.
C13_TiesInTableOrder ==
    Ranked =>
        \A a, b \in 1..Len(outcome.rows) :
            (a < b /\ Score(outcome.rows[a]) = Score(outcome.rows[b]))
              => outcome.rows[a] < outcome.rows[b]

\* C14: every (user, movie) index pair given to the prediction model is
\* inside the encoding range of the training data: the user index is the
\* encoded user of the first rating record, within 0..num_users-1, the movie
\* indices are exactly 0..num_movies-1 whatever the seed titles are, and
\* with an absent seed the model is not queried.
C14_QueriesInRange ==
    pc = "print" =>
        /\ Range(user_id_encoded) = 0..(num_users - 1)
        /\ Range(movie_id_encoded) = 0..(num_movies - 1)
        /\ \A p \in outcome.queried :
             /\ p[1] = SampleUser
             /\ p[1] \in Range(user_id_encoded)
             /\ p[2] \in Range(movie_id_encoded)
        /\ outcome.queried # {} =>
             {p[2] : p \in outcome.queried} = 0..(num_movies - 1)
        /\ (AllSeedsPresent /\ call.input_movies # <<>>) => outcome.queried # {}
        /\ SomeSeedAbsent => outcome.queried = {}

\* C14 witness: the first rating is by the user encoded as 1, two movies are
\* rated, and a ranking call queried the model for both
C14_Witness ==
    /\ Ranked
    /\ SampleUser = 1
    /\ num_users = 2
    /\ num_movies = 2
    /\ outcome.queried = {<<1, 0>>, <<1, 1>>}

====
